---- MODULE Spec2Model ----
(***************************************************************************)
(* The sample-mappings integration suite of erp-toolkit-mapping-examples:  *)
(* vitest.config.ts loads .env, the test module reads EPILOT_API_TOKEN,    *)
(* builds the ERP client, and five test cases each load two JSON fixtures, *)
(* call simulateMappingV2 once and match one entity update of the response *)
(* against an expected object with toMatchObject.                          *)
(***************************************************************************)
EXTENDS Integers, Sequences, FiniteSets, TLC

VARIABLES
    processEnv,   \* process.env.EPILOT_API_TOKEN
    files,        \* the samples/ directory: path -> file content
    phase,        \* how far the run of the test file has come
    erpClient,    \* the client built at module load
    testTimeout,  \* vitest's test timeout in force
    pc,           \* per test case: its position
    eventConfig,  \* per test case: const eventConfig
    event,        \* per test case: const event
    response,     \* per test case: const response
    error,        \* per test case: the error its result records
    sent,         \* per test case: the requests it issued, as the remote saw them
    reads         \* the paths readFileSync was called on

vars == <<processEnv, files, phase, erpClient, testTimeout,
          pc, eventConfig, event, response, error, sent, reads>>

-----------------------------------------------------------------------------
(* JSON values, tagged so that values of different JS types compare unequal *)

Undefined == [t |-> "undefined", v |-> ""]
Str(s) == [t |-> "str", v |-> s]
Num(n) == [t |-> "num", v |-> n]
Arr(s) == [t |-> "arr", v |-> s]
Obj(f) == [t |-> "obj", v |-> f]
\* expect.any(Array): an asymmetric matcher
AnyArray == [t |-> "any", v |-> "arr"]

\* o[k] of JavaScript: undefined when o has no such property
Get(o, k) == IF o.t = "obj" /\ k \in DOMAIN o.v THEN o.v[k] ELSE Undefined

\* !x of JavaScript for the values an environment variable takes
Falsy(x) == x.t = "undefined" \/ (x.t = "str" /\ x.v = "")

-----------------------------------------------------------------------------
(* The test cases, in declaration order *)

TestCases == <<
    [describe |-> "CustomerChanged", it |-> "should map to contact entity",
     config |-> "CustomerChanged", payload |-> "customer", slug |-> "contact"],
    [describe |-> "CustomerChanged", it |-> "should map to account entity",
     config |-> "CustomerChanged", payload |-> "customer", slug |-> "account"],
    [describe |-> "CustomerChanged", it |-> "should map to billing_account entity",
     config |-> "CustomerChanged", payload |-> "customer", slug |-> "billing_account"],
    [describe |-> "OrderChanged", it |-> "should map to contact entity",
     config |-> "OrderChanged", payload |-> "order", slug |-> "contact"],
    [describe |-> "OrderChanged", it |-> "should map to order entity",
     config |-> "OrderChanged", payload |-> "order", slug |-> "order"] >>

Tests == 1..Len(TestCases)

-----------------------------------------------------------------------------
(* The expected objects handed to toMatchObject, one per test case *)

StrArr(ss) == Arr([i \in 1..Len(ss) |-> Str(ss[i])])
Tagged(tags, rest) == Obj(("_tags" :> StrArr(tags)) @@ rest)
\* { $relation: { _set: expect.any(Array) } }
AnyRelation == Obj("$relation" :> Obj("_set" :> AnyArray))

Email(tags, addr) == Tagged(tags, [email |-> Str(addr)])
Phone(tags, number) == Tagged(tags, [phone |-> Str(number)])
AddressFields(street, code, city) ==
    [street |-> Str(street), postal_code |-> Str(code),
     city |-> Str(city), country |-> Str("Germany")]
Address(tags, street, code, city) == Tagged(tags, AddressFields(street, code, city))
PaymentSepa ==
    Obj([type |-> Str("payment_sepa"),
         data |-> Obj([iban |-> Str("DE89370400440532013000"),
                       bic_number |-> Str("DEUTDEFF"),
                       fullname |-> Str("Acme Corporation")])])
OrderItem(id, name, quantity, unit, total) ==
    Tagged(<<id>>, [product_id |-> Str(id), product_name |-> Str(name),
                    quantity |-> Str(quantity), unit_price |-> Str(unit),
                    total_price |-> Str(total)])

ExpectedCustomerContact ==
    Obj([entity_slug |-> Str("contact"),
         attributes |-> Obj([
            external_id |-> Str("CUST-9876"),
            first_name |-> Str("Max"),
            last_name |-> Str("Mustermann"),
            company_name |-> Str("Acme Corporation"),
            customer_type |-> Str("business"),
            tax_id |-> Str("DE123456789"),
            status |-> Str("active"),
            full_name |-> Str("Acme Corporation"),
            email |-> Arr(<<Email(<<"Primary">>, "max.mustermann@acme.com")>>),
            phone |-> Arr(<<Phone(<<"Primary">>, "+49 89 12345678"),
                            Phone(<<"Mobile">>, "+49 176 98765432")>>),
            address |-> Arr(<<
                Address(<<"Primary Address">>, "Hauptstrasse 123", "80331", "Munich"),
                Address(<<"Billing Address">>, "Nebenstrasse 456", "10115", "Berlin")>>),
            account |-> AnyRelation])])

ExpectedAccount ==
    Obj([entity_slug |-> Str("account"),
         attributes |-> Obj([
            customer_number |-> Str("CUST-9876"),
            name |-> Str("Acme Corporation"),
            tax_id |-> Str("DE123456789"),
            website |-> Str("https://www.acme-corp.example"),
            industry |-> StrArr(<<"Technology", "Solar Energy">>),
            company_size |-> Str("100-249"),
            email |-> Arr(<<Email(<<"Primary">>, "max.mustermann@acme.com")>>),
            phone |-> Arr(<<Phone(<<"Primary">>, "+49 89 12345678"),
                            Phone(<<"Mobile">>, "+49 176 98765432")>>),
            address |-> Arr(<<
                Address(<<"Primary Address">>, "Hauptstrasse 123", "80331", "Munich"),
                Address(<<"Billing Address">>, "Nebenstrasse 456", "10115", "Berlin")>>),
            payment |-> Arr(<<PaymentSepa>>),
            contacts |-> AnyRelation])])

ExpectedBillingAccount ==
    Obj([entity_slug |-> Str("billing_account"),
         attributes |-> Obj([
            external_id |-> Str("CUST-9876"),
            billing_account_number |-> Str("CUST-9876"),
            billing_address |->
                Address(<<"Billing">>, "Nebenstrasse 456", "10115", "Berlin"),
            payment_method |-> Arr(<<PaymentSepa>>),
            billing_contact |-> AnyRelation])])

ExpectedOrderContact ==
    Obj([entity_slug |-> Str("contact"),
         attributes |-> Obj([
            external_id |-> Str("CUST-9876"),
            full_name |-> Str("Acme Corporation"),
            email |-> Arr(<<Email(<<"Primary">>, "contact@acme.com")>>),
            phone |-> Arr(<<Phone(<<"Primary">>, "+49 89 12345678")>>)])])

ExpectedOrder ==
    Obj([entity_slug |-> Str("order"),
         attributes |-> Obj([
            external_id |-> Str("ORD-2024-12345"),
            order_number |-> Str("ORD-2024-12345"),
            order_date |-> Str("2024-10-21T10:30:00Z"),
            status |-> Str("pending"),
            delivery_date |-> Str("2024-11-15"),
            total_amount_decimal |-> Str("3499.90"),
            total_amount |-> Str("349990"),
            total_amount_currency |-> Str("EUR"),
            item_count |-> Num(2),
            shipping_address |->
                Arr(<<Obj(AddressFields("Hauptstrasse 123", "80331", "Munich"))>>),
            order_items |-> Arr(<<
                OrderItem("PROD-001", "Solar Panel 400W", "10", "299.99", "2999.90"),
                OrderItem("PROD-002", "Installation Service", "1", "500.00", "500.00")>>),
            customer |-> AnyRelation])])

Expected(t) ==
    CASE t = 1 -> ExpectedCustomerContact
      [] t = 2 -> ExpectedAccount
      [] t = 3 -> ExpectedBillingAccount
      [] t = 4 -> ExpectedOrderContact
      [] t = 5 -> ExpectedOrder

-----------------------------------------------------------------------------
(* expect(received).toMatchObject(expected) and Array.prototype.find *)

RECURSIVE MatchObject(_, _)
\* An asymmetric matcher decides by itself; an object is matched as a subset,
\* key by key; an array needs the same length and matches element by element;
\* anything else must be the same primitive.
MatchObject(received, expected) ==
    CASE expected.t = "any" -> received.t = expected.v
      [] expected.t = "obj" ->
            \A k \in DOMAIN expected.v :
                /\ received.t = "obj"
                /\ k \in DOMAIN received.v
                /\ MatchObject(received.v[k], expected.v[k])
      [] expected.t = "arr" ->
            /\ received.t = "arr"
            /\ Len(received.v) = Len(expected.v)
            /\ \A i \in 1..Len(expected.v) : MatchObject(received.v[i], expected.v[i])
      [] OTHER -> received.t = expected.t /\ received.v = expected.v

RECURSIVE StrictEqual(_, _)
\* expect(received).toEqual(expected): as MatchObject, but an object must have
\* exactly the expected keys
StrictEqual(received, expected) ==
    CASE expected.t = "any" -> received.t = expected.v
      [] expected.t = "obj" ->
            /\ received.t = "obj"
            /\ DOMAIN received.v = DOMAIN expected.v
            /\ \A k \in DOMAIN expected.v : StrictEqual(received.v[k], expected.v[k])
      [] expected.t = "arr" ->
            /\ received.t = "arr"
            /\ Len(received.v) = Len(expected.v)
            /\ \A i \in 1..Len(expected.v) : StrictEqual(received.v[i], expected.v[i])
      [] OTHER -> received.t = expected.t /\ received.v = expected.v

\* (variant) the last element of that slug instead of the first
FindLast(updates, slug) ==
    LET hits == {i \in 1..Len(updates) :
                    /\ Get(updates[i], "entity_slug").t = "str"
                    /\ Get(updates[i], "entity_slug").v = slug}
    IN IF hits = {} THEN Undefined
       ELSE updates[CHOOSE i \in hits : \A j \in hits : j <= i]

\* updates.find(update => update.entity_slug === slug): the first such element
Find(updates, slug) ==
    LET hits == {i \in 1..Len(updates) :
                    /\ Get(updates[i], "entity_slug").t = "str"
                    /\ Get(updates[i], "entity_slug").v = slug}
    IN IF hits = {} THEN Undefined
       ELSE updates[CHOOSE i \in hits : \A j \in hits : i <= j]

-----------------------------------------------------------------------------
(* The fixtures under samples/ and the two loaders *)

MappingPath(eventName) == "samples/mapping." \o eventName \o ".json"
PayloadPath(eventName) == "samples/payload." \o eventName \o ".json"

\* The files the README lists under samples/
SamplePaths ==
    {MappingPath("CustomerChanged"), MappingPath("OrderChanged"),
     MappingPath("ContractChanged"),
     PayloadPath("customer"), PayloadPath("order"), PayloadPath("contract")}

Missing == [t |-> "missing", v |-> <<>>]
Text(tokens) == [t |-> "text", v |-> tokens]

IsPunctuation(tok) == tok \in {"{", "}", ":", ","}

\* JSON.parse on a text given as its tokens: an object of string members.
\* A later member of the same name wins; anything else is a SyntaxError.
JSONParse(tokens) ==
    LET n == Len(tokens)
        body == SubSeq(tokens, 2, n - 1)
        m == Len(body)
        wellFormed ==
            /\ n >= 2 /\ tokens[1] = "{" /\ tokens[n] = "}"
            /\ (m = 0 \/ m % 4 = 3)
            /\ \A j \in 1..m :
                  CASE j % 4 = 1 -> ~IsPunctuation(body[j])
                    [] j % 4 = 2 -> body[j] = ":"
                    [] j % 4 = 3 -> ~IsPunctuation(body[j])
                    [] OTHER -> body[j] = ","
        names == {body[j] : j \in {i \in 1..m : i % 4 = 1}}
        last(k) == CHOOSE j \in 1..m :
                      /\ j % 4 = 1 /\ body[j] = k
                      /\ \A i \in 1..m : (i % 4 = 1 /\ body[i] = k) => i <= j
    IN IF wellFormed
       THEN [ok |-> TRUE, value |-> Obj([k \in names |-> Str(body[last(k) + 2])])]
       ELSE [ok |-> FALSE, value |-> Undefined]

\* (variant) a loader that swallows the error and hands back undefined
ReadJSONLenient(path) ==
    IF path \notin DOMAIN files \/ files[path].t = "missing"
    THEN [error |-> "none", value |-> Undefined]
    ELSE [error |-> "none", value |-> JSONParse(files[path].v).value]

\* readFileSync(path, 'utf-8') followed by JSON.parse
ReadJSON(path) ==
    IF path \notin DOMAIN files \/ files[path].t = "missing"
    THEN [error |-> "ENOENT", value |-> Undefined]
    ELSE LET parsed == JSONParse(files[path].v)
         IN IF parsed.ok THEN [error |-> "none", value |-> parsed.value]
            ELSE [error |-> "SyntaxError", value |-> Undefined]

loadEventConfig(eventName) == ReadJSON(MappingPath(eventName))
loadInboundEvent(eventName) == ReadJSON(PayloadPath(eventName))

\* What a sample file holds when it is intact, and when it was cut short
IntactText(path) == <<"{", "sample", ":", path, "}">>
FileKinds == {"intact", "truncated", "missing"}
FileOfKind(path, kind) ==
    CASE kind = "intact" -> Text(IntactText(path))
      [] kind = "truncated" -> Text(SubSeq(IntactText(path), 1, 4))
      [] OTHER -> Missing

\* The paths the suite's test cases name
FixturePaths ==
    {MappingPath(TestCases[t].config) : t \in Tests}
        \cup {PayloadPath(TestCases[t].payload) : t \in Tests}

-----------------------------------------------------------------------------
(* The client and the remote service *)

TEST_TIMEOUT == 30000
ConfigTestTimeout == 30000
\* vitest's maxConcurrency: how many test cases may be in progress at once
MaxConcurrency == 2

NoClient == [created |-> FALSE, Authorization |-> Undefined, validateStatus |-> "default"]
\* getClient()
getClient == [created |-> TRUE, Authorization |-> Undefined, validateStatus |-> "default"]

\* (variant) validateStatus left at the default
DefaultStatuses == "default"

\* erpClient.defaults.validateStatus = () => true
AcceptAllStatuses == "acceptAll"

\* axios settles a response by validateStatus: the default accepts 2xx only
ValidateStatus(client, status) ==
    IF client.validateStatus = "acceptAll" THEN TRUE
    ELSE status >= 200 /\ status < 300

\* (variant) the call goes to the operation that processes the event for real
ProcessErpUpdatesRequest(client, config, payload) ==
    [operation |-> "processErpUpdatesEventsV2",
     Authorization |-> client.Authorization,
     data |-> Obj([event_configuration |-> config,
                   format |-> Str("json"),
                   payload |-> payload])]

\* erpClient.simulateMappingV2(null, {event_configuration, format, payload})
SimulateMappingV2Request(client, config, payload) ==
    [operation |-> "simulateMappingV2",
     Authorization |-> client.Authorization,
     data |-> Obj([event_configuration |-> config,
                   format |-> Str("json"),
                   payload |-> payload])]

NoResponse == [status |-> 0, data |-> Undefined]

RECURSIVE Concrete(_)
\* A value the remote can return where the expected object says expect.any(Array)
Concrete(e) ==
    CASE e.t = "any" -> Arr(<<Obj([entity_id |-> Str("related-entity")])>>)
      [] e.t = "obj" -> Obj([k \in DOMAIN e.v |-> Concrete(e.v[k])])
      [] e.t = "arr" -> Arr([i \in 1..Len(e.v) |-> Concrete(e.v[i])])
      [] OTHER -> e

\* Entity updates the remote may return for a test case: the expected one, one
\* with a further attribute and a further top-level property, one without one
\* of the listed attributes, and one of a slug no test case looks for
Conforming(t) == Concrete(Expected(t))
WithExtra(t) ==
    LET c == Conforming(t)
    IN Obj([entity_slug |-> c.v.entity_slug,
            unique_identifiers |-> Obj([external_id |-> Str("CUST-9876")]),
            attributes |-> Obj(("_updated_by" :> Str("erp")) @@ c.v.attributes.v)])
Lacking(t) ==
    LET c == Conforming(t)
        attrs == c.v.attributes.v
        dropped == CHOOSE k \in DOMAIN attrs : TRUE
    IN Obj([entity_slug |-> c.v.entity_slug,
            attributes |-> Obj([k \in DOMAIN attrs \ {dropped} |-> attrs[k]])])
Unrelated ==
    Obj([entity_slug |-> Str("meter"),
         attributes |-> Obj([external_id |-> Str("MTR-001234")])])

Updates(status, updates) ==
    [status |-> status, data |-> Obj([entity_updates |-> Arr(updates)])]

\* The responses the remote may give to the request of test case t
ResponsesTo(t) == <<
    Updates(200, <<Conforming(t)>>),
    Updates(200, <<Unrelated, WithExtra(t)>>),
    Updates(200, <<Lacking(t), Conforming(t)>>),
    Updates(200, <<Conforming(t), Lacking(t)>>),
    Updates(200, <<Unrelated>>),
    [status |-> 401, data |-> Obj([message |-> Str("Unauthorized")])],
    [status |-> 500, data |-> Str("")] >>

ResponseTable == [t \in Tests |-> ResponsesTo(t)]
ResponseCases(t) == ResponseTable[t]

-----------------------------------------------------------------------------
(* The run of the test file *)

EnvValues == {Undefined, Str(""), Str("secret-token")}

\* `${x}` of JavaScript
TemplateString(x) == IF x.t = "undefined" THEN "undefined" ELSE x.v

\* (variant) the header set to the bare token
ConfiguredClientBareToken(API_TOKEN) ==
    [getClient EXCEPT !.Authorization = Str(TemplateString(API_TOKEN)),
                      !.validateStatus = AcceptAllStatuses]

\* the client after the three statements that follow the token check
ConfiguredClient(API_TOKEN) ==
    [getClient EXCEPT !.Authorization = Str("Bearer " \o TemplateString(API_TOKEN)),
                      !.validateStatus = AcceptAllStatuses]

\* (variant) the check written as API_TOKEN === undefined
ModuleLoadUnsetOnly(API_TOKEN) ==
    IF API_TOKEN.t = "undefined"
    THEN [threw |-> TRUE, client |-> NoClient]
    ELSE [threw |-> FALSE, client |-> ConfiguredClient(API_TOKEN)]

\* the top level of the test module: it throws on a missing token, before getClient()
ModuleLoad(API_TOKEN) ==
    IF Falsy(API_TOKEN)
    THEN [threw |-> TRUE, client |-> NoClient]
    ELSE [threw |-> FALSE, client |-> ConfiguredClient(API_TOKEN)]

InProgress(t) == pc[t] \in {"loaded", "await", "responded"}
Finished(t) == pc[t] \in {"passed", "failed"}

RequestOf(t) == SimulateMappingV2Request(erpClient, eventConfig[t], event[t])

\* response.data.entity_updates.find(update => update.entity_slug === slug):
\* a TypeError when entity_updates is no array
SelectUpdate(t, resp) ==
    LET updates == Get(resp.data, "entity_updates")
    IN IF updates.t # "arr"
       THEN [threw |-> TRUE, value |-> Undefined]
       ELSE [threw |-> FALSE, value |-> Find(updates.v, TestCases[t].slug)]

\* (variant) the assertion written with toEqual
AssertionToEqual(t, received) == StrictEqual(received, Expected(t))

\* (variant) the assertion skipped when nothing was found
AssertionIfFound(t, received) ==
    received.t = "undefined" \/ MatchObject(received, Expected(t))

\* expect(update).toMatchObject({...})
Assertion(t, received) == MatchObject(received, Expected(t))

\* The error a test result records: its name and, for a failed assertion, the
\* value the assertion received
Thrown(name) == [name |-> name, actual |-> Undefined]
NoError == Thrown("none")
AssertionError(received) == [name |-> "AssertionError", actual |-> received]

\* the statement of the test function an error comes from
StepOf(name) ==
    CASE name \in {"ENOENT", "SyntaxError"} -> "load"
      [] name \in {"NoAnswer", "AxiosError"} -> "request"
      [] name = "TypeError" -> "lookup"
      [] name = "AssertionError" -> "assert"
      [] OTHER -> "none"

\* what the rest of the test function makes of a response
Verdict(t, resp) ==
    LET selected == SelectUpdate(t, resp)
    IN IF selected.threw THEN Thrown("TypeError")
       ELSE IF Assertion(t, selected.value) THEN NoError
       ELSE AssertionError(selected.value)

\* the test function returns or throws: its result is recorded, its locals are gone
Finish(t, err) ==
    /\ pc' = [pc EXCEPT ![t] = IF err.name = "none" THEN "passed" ELSE "failed"]
    /\ error' = [error EXCEPT ![t] = err]
    /\ eventConfig' = [eventConfig EXCEPT ![t] = Undefined]
    /\ event' = [event EXCEPT ![t] = Undefined]
    /\ response' = [response EXCEPT ![t] = NoResponse]

Init ==
    /\ processEnv \in EnvValues
    /\ \E damaged \in FixturePaths, kind \in FileKinds :
          files = [p \in SamplePaths |->
                     FileOfKind(p, IF p = damaged THEN kind ELSE "intact")]
    /\ phase = "start"
    /\ erpClient = NoClient
    /\ testTimeout = 5000
    /\ pc = [t \in Tests |-> "idle"]
    /\ eventConfig = [t \in Tests |-> Undefined]
    /\ event = [t \in Tests |-> Undefined]
    /\ response = [t \in Tests |-> NoResponse]
    /\ error = [t \in Tests |-> NoError]
    /\ sent = [t \in Tests |-> <<>>]
    /\ reads = {}

\* vitest.config.ts: dotenv's config() fills in variables the process lacks
LoadVitestConfig ==
    /\ phase = "start"
    /\ \E fromDotenv \in EnvValues :
          processEnv' = IF processEnv.t = "undefined" THEN fromDotenv ELSE processEnv
    /\ testTimeout' = ConfigTestTimeout
    /\ phase' = "configured"
    /\ UNCHANGED <<files, erpClient, pc, eventConfig, event, response, error, sent, reads>>

LoadTestModule ==
    /\ phase = "configured"
    /\ LET loaded == ModuleLoad(processEnv)
       IN /\ phase' = IF loaded.threw THEN "threw" ELSE "loaded"
          /\ erpClient' = loaded.client
    /\ UNCHANGED <<processEnv, files, testTimeout,
                   pc, eventConfig, event, response, error, sent, reads>>

BeforeAll ==
    /\ phase = "loaded"
    /\ testTimeout' = TEST_TIMEOUT
    /\ phase' = "running"
    /\ UNCHANGED <<processEnv, files, erpClient,
                   pc, eventConfig, event, response, error, sent, reads>>

\* const eventConfig = loadEventConfig(...); const event = loadInboundEvent(...)
LoadFixtures(t) ==
    /\ phase = "running"
    /\ pc[t] = "idle"
    /\ Cardinality({u \in Tests : InProgress(u)}) < MaxConcurrency
    /\ LET config == loadEventConfig(TestCases[t].config)
           payload == loadInboundEvent(TestCases[t].payload)
       IN IF config.error # "none"
          THEN /\ Finish(t, Thrown(config.error))
               /\ reads' = reads \cup {MappingPath(TestCases[t].config)}
          ELSE IF payload.error # "none"
          THEN /\ Finish(t, Thrown(payload.error))
               /\ reads' = reads \cup {MappingPath(TestCases[t].config),
                                        PayloadPath(TestCases[t].payload)}
          ELSE /\ eventConfig' = [eventConfig EXCEPT ![t] = config.value]
               /\ event' = [event EXCEPT ![t] = payload.value]
               /\ pc' = [pc EXCEPT ![t] = "loaded"]
               /\ reads' = reads \cup {MappingPath(TestCases[t].config),
                                        PayloadPath(TestCases[t].payload)}
               /\ UNCHANGED <<response, error>>
    /\ UNCHANGED <<processEnv, files, phase, erpClient, testTimeout, sent>>

\* (variant) the call is issued a second time
RequestTwice(t) ==
    /\ pc[t] = "loaded"
    /\ sent' = [sent EXCEPT ![t] = Append(Append(@, RequestOf(t)), RequestOf(t))]
    /\ pc' = [pc EXCEPT ![t] = "await"]
    /\ UNCHANGED <<processEnv, files, phase, erpClient, testTimeout,
                   eventConfig, event, response, error, reads>>

\* erpClient.simulateMappingV2(...) is called and the test function awaits it
Request(t) ==
    /\ pc[t] = "loaded"
    /\ sent' = [sent EXCEPT ![t] = Append(@, RequestOf(t))]
    /\ pc' = [pc EXCEPT ![t] = "await"]
    /\ UNCHANGED <<processEnv, files, phase, erpClient, testTimeout,
                   eventConfig, event, response, error, reads>>

\* the remote answers: the call resolves when validateStatus accepts the status
Resolve(t) ==
    /\ pc[t] = "await"
    /\ \E i \in 1..Len(ResponseCases(t)) :
          LET answer == ResponseCases(t)[i]
          IN IF ValidateStatus(erpClient, answer.status)
             THEN /\ response' = [response EXCEPT ![t] = answer]
                  /\ pc' = [pc EXCEPT ![t] = "responded"]
                  /\ UNCHANGED <<eventConfig, event, error>>
             ELSE Finish(t, Thrown("AxiosError"))
    /\ UNCHANGED <<processEnv, files, phase, erpClient, testTimeout, sent, reads>>

\* no answer arrives: the call rejects, or is still pending when the test
\* timeout expires; either way the test function gets no response
NoAnswer(t) ==
    /\ pc[t] = "await"
    /\ Finish(t, Thrown("NoAnswer"))
    /\ UNCHANGED <<processEnv, files, phase, erpClient, testTimeout, sent, reads>>

\* (variant) `response` kept in one variable of the module, shared by the test
\* cases: a test case continues with whatever response is held there
ContinueSharedResponse(t) ==
    /\ pc[t] = "responded"
    /\ LET u == CHOOSE u \in Tests :
                    /\ pc[u] = "responded"
                    /\ \A w \in Tests : pc[w] = "responded" => u <= w
       IN Finish(t, Verdict(t, response[u]))
    /\ UNCHANGED <<processEnv, files, phase, erpClient, testTimeout, sent, reads>>

\* after the await: find the update, assert on it
Continue(t) ==
    /\ pc[t] = "responded"
    /\ Finish(t, Verdict(t, response[t]))
    /\ UNCHANGED <<processEnv, files, phase, erpClient, testTimeout, sent, reads>>

Next ==
    \/ LoadVitestConfig
    \/ LoadTestModule
    \/ BeforeAll
    \/ \E t \in Tests : LoadFixtures(t)
    \/ \E t \in Tests : Request(t)
    \/ \E t \in Tests : Resolve(t)
    \/ \E t \in Tests : NoAnswer(t)
    \/ \E t \in Tests : Continue(t)

Spec == Init /\ [][Next]_vars

-----------------------------------------------------------------------------
(* Properties *)

AllFinished == \A t \in Tests : Finished(t)
FixturesIntact(t) ==
    /\ files["samples/mapping." \o TestCases[t].config \o ".json"].t = "text"
    /\ files["samples/mapping." \o TestCases[t].config \o ".json"].v
          = <<"{", "sample", ":", "samples/mapping." \o TestCases[t].config \o ".json", "}">>
    /\ files["samples/payload." \o TestCases[t].payload \o ".json"].t = "text"
    /\ files["samples/payload." \o TestCases[t].payload \o ".json"].v
          = <<"{", "sample", ":", "samples/payload." \o TestCases[t].payload \o ".json", "}">>

RECURSIVE RequestsUpTo(_)
RequestsUpTo(n) == IF n = 0 THEN 0 ELSE Len(sent[n]) + RequestsUpTo(n - 1)
TotalRequests == RequestsUpTo(Len(TestCases))

\* C1: when EPILOT_API_TOKEN is unset or empty at the time the test module is
\* loaded, loading throws before the client is constructed: the run has no
\* client, reads no fixture and no test case ever issues a request.
C1_MissingTokenStopsTheRun ==
    (phase \notin {"start", "configured"} /\ Falsy(processEnv)) =>
        /\ phase = "threw"
        /\ ~erpClient.created
        /\ reads = {}
        /\ \A t \in Tests : pc[t] = "idle" /\ sent[t] = <<>>

C1_Witness == phase = "threw" /\ processEnv = Str("") /\ ~erpClient.created

\* C2: a test case issues at most one request at any time, exactly one once it
\* has reached the call (whatever the outcome of the call), holds a response
\* only for a request of its own, and a full run with all fixtures loadable
\* issues as many requests as there are test cases.
C2_OneRequestPerTestCase ==
    /\ \A t \in Tests :
          /\ Len(sent[t]) <= 1
          /\ pc[t] \in {"await", "responded", "passed"} => Len(sent[t]) = 1
          /\ (pc[t] = "failed" /\ StepOf(error[t].name) # "load") => Len(sent[t]) = 1
    /\ (AllFinished /\ \A t \in Tests : FixturesIntact(t))
          => TotalRequests = Len(TestCases)

C2_Witness ==
    /\ AllFinished
    /\ \A t \in Tests : FixturesIntact(t)
    /\ TotalRequests = 5
    /\ \E t \in Tests : pc[t] = "passed"
    /\ \E t \in Tests : error[t].name = "TypeError"
    /\ \E t \in Tests : error[t].name = "AssertionError"
    /\ \E t \in Tests : error[t].name = "NoAnswer"

\* the request body a test case must send: the two parsed fixtures and format 'json'
BodyFromFixtures(t) ==
    Obj([event_configuration |->
            Obj([sample |-> Str("samples/mapping." \o TestCases[t].config \o ".json")]),
         format |-> Str("json"),
         payload |->
            Obj([sample |-> Str("samples/payload." \o TestCases[t].payload \o ".json")])])

C3_State ==
    \A t \in Tests :
        /\ sent[t] # <<>> => FixturesIntact(t) /\ sent[t][1].data = BodyFromFixtures(t)
        /\ pc[t] \in {"loaded", "await", "responded"} =>
              /\ eventConfig[t] = BodyFromFixtures(t).v.event_configuration
              /\ event[t] = BodyFromFixtures(t).v.payload
        /\ ~FixturesIntact(t) =>
              /\ pc[t] \in {"idle", "failed"}
              /\ sent[t] = <<>>
              /\ pc[t] = "failed" => StepOf(error[t].name) = "load"

C3_Step ==
    \A t \in Tests :
        /\ (pc[t] # "await" /\ pc'[t] = "await") =>
              /\ pc[t] = "loaded"
              /\ sent[t] = <<>>
              /\ sent'[t][1].data.v.event_configuration = eventConfig[t]
              /\ sent'[t][1].data.v.payload = event[t]
        /\ (pc[t] # pc'[t] /\ (pc'[t] = "passed"
                                \/ StepOf(error'[t].name) \in {"lookup", "assert"})) =>
              /\ pc[t] = "responded"
              /\ response[t] # NoResponse
              /\ Len(sent[t]) = 1

\* C3: in every test case both fixtures are read and parsed before the request is
\* issued, the request body carries exactly the two loaded values and format
\* 'json', the lookup and the assertion run only after the response has arrived,
\* and a missing or invalid fixture fails the test case without any request.
C3_LoadThenRequestThenAssert == [](C3_State) /\ [][C3_Step]_vars

C3_Witness ==
    /\ \E t \in Tests :
          /\ error[t].name \in {"SyntaxError", "ENOENT"}
          /\ pc[t] = "failed" /\ sent[t] = <<>>
    /\ \E t \in Tests : pc[t] = "passed" /\ Len(sent[t]) = 1

\* C4: the only remote operation any test case invokes is simulateMappingV2, and
\* no step of the run changes a file under samples/.
C4_OnlySimulateNothingWritten ==
    [][/\ files' = files
       /\ \A t \in Tests : \A i \in 1..Len(sent'[t]) :
             sent'[t][i].operation = "simulateMappingV2"]_vars

C4_Witness ==
    /\ AllFinished
    /\ \A t \in Tests : Len(sent[t]) = 1 /\ sent[t][1].operation = "simulateMappingV2"

\* the update the test case selects from the response it holds
Selected(t) ==
    LET updates == Get(response[t].data, "entity_updates")
    IN IF updates.t = "arr" THEN Find(updates.v, Expected(t).v.entity_slug.v)
       ELSE Undefined

\* test case t takes its last step, from the response to its result
Concludes(t) == pc[t] = "responded" /\ pc'[t] \in {"passed", "failed"}

HasUpdateWithSlug(resp, slug) ==
    LET updates == Get(resp.data, "entity_updates")
    IN /\ updates.t = "arr"
       /\ \E i \in 1..Len(updates.v) :
             /\ Get(updates.v[i], "entity_slug").t = "str"
             /\ Get(updates.v[i], "entity_slug").v = slug

\* the (event, payload, entity slug) pairs the README lists for the two samples
C5_Pairs == <<
    [event |-> "CustomerChanged", payload |-> "customer", slug |-> "contact"],
    [event |-> "CustomerChanged", payload |-> "customer", slug |-> "account"],
    [event |-> "CustomerChanged", payload |-> "customer", slug |-> "billing_account"],
    [event |-> "OrderChanged", payload |-> "order", slug |-> "contact"],
    [event |-> "OrderChanged", payload |-> "order", slug |-> "order"] >>

\* C5: for each of the five (event, slug) pairs there is a test case that sends
\* the mapping and the payload of that event, selects the update of that slug,
\* and fails whenever the response's entity_updates holds no update of that slug.
C5_EveryPairCheckedNotVacuously ==
    [][\A i \in 1..Len(C5_Pairs) : \E t \in Tests :
          LET pair == C5_Pairs[i]
          IN /\ t = i
             /\ sent'[t] # <<>> =>
                   /\ sent'[t][1].data.v.event_configuration
                         = Obj([sample |-> Str("samples/mapping." \o pair.event \o ".json")])
                   /\ sent'[t][1].data.v.payload
                         = Obj([sample |-> Str("samples/payload." \o pair.payload \o ".json")])
             /\ (Concludes(t) /\ ~HasUpdateWithSlug(response[t], pair.slug))
                   => pc'[t] = "failed"
             /\ (Concludes(t) /\ error'[t].name = "AssertionError"
                    /\ error'[t].actual.t # "undefined")
                   => error'[t].actual.v.entity_slug = Str(pair.slug)]_vars

C5_Witness ==
    \E t \in Tests :
        /\ pc[t] = "failed"
        /\ error[t] = [name |-> "AssertionError", actual |-> Undefined]

\* C6: some test case loads the ContractChanged mapping and the contract payload
\* and sends them to simulateMappingV2, so that a full run exercises every event
\* type the README lists.
C6_ContractChangedExercised ==
    (AllFinished /\ \A t \in Tests : FixturesIntact(t)) =>
        /\ "samples/mapping.ContractChanged.json" \in reads
        /\ "samples/payload.contract.json" \in reads
        /\ \E t \in Tests :
              /\ sent[t] # <<>>
              /\ sent[t][1].data.v.event_configuration
                    = Obj([sample |-> Str("samples/mapping.ContractChanged.json")])

RECURSIVE Facts(_, _)
\* what a value says, path by path: the kind of every node, the length of every
\* array and the content of every primitive
Facts(val, path) ==
    CASE val.t = "obj" ->
            {<<path, "kind", "obj">>}
                \cup UNION {Facts(val.v[k], path \o "." \o k) : k \in DOMAIN val.v}
      [] val.t = "arr" ->
            {<<path, "kind", "arr">>, <<path, "length", ToString(Len(val.v))>>}
                \cup UNION {Facts(val.v[i], path \o "[" \o ToString(i) \o "]") :
                              i \in 1..Len(val.v)}
      [] val.t = "any" -> {<<path, "kind", val.v>>}
      [] val.t = "num" -> {<<path, "num", ToString(val.v)>>}
      [] val.t = "str" -> {<<path, "str", val.v>>}
      [] OTHER -> {<<path, "kind", val.t>>}

ExpectedFacts == [t \in Tests |-> Facts(Expected(t), "$")]

\* every property the expected object lists is there, with the listed content
CoversExpected(t, received) == ExpectedFacts[t] \subseteq Facts(received, "$")

\* C7 as stated: the test case passes exactly when the selected update equals
\* the expected object, so a further attribute makes it fail.
C7_PassesIffEqual ==
    [][\A t \in Tests :
          Concludes(t) /\ Get(response[t].data, "entity_updates").t = "arr" =>
              (pc'[t] = "passed" <=> StrictEqual(Selected(t), Expected(t)))]_vars

\* C7 (amended): the assertion is a subset match. The test case passes exactly
\* when the selected update has every property the expected object lists, with
\* the listed content (arrays of the listed length); a further attribute does
\* not make it fail, a missing one does.
C7_PassesIffListedPropertiesMatch ==
    [][\A t \in Tests :
          Concludes(t) /\ Get(response[t].data, "entity_updates").t = "arr" =>
              /\ pc'[t] = "passed" <=> CoversExpected(t, Selected(t))
              /\ (/\ Selected(t).t = "obj"
                  /\ \E k \in DOMAIN Expected(t).v.attributes.v :
                        k \notin DOMAIN Selected(t).v.attributes.v)
                    => pc'[t] = "failed"]_vars

C7_Witness ==
    \E t \in Tests :
        /\ pc[t] = "responded"
        /\ Selected(t).t = "obj"
        /\ "_updated_by" \in DOMAIN Selected(t).v.attributes.v
        /\ "_updated_by" \notin DOMAIN Expected(t).v.attributes.v
        /\ \A k \in DOMAIN Expected(t).v.attributes.v :
              k \in DOMAIN Selected(t).v.attributes.v
        /\ ENABLED Continue(t)

\* the responses of ResponseCases that make a test case pass: the expected
\* update alone, the expected update with a further attribute behind an update
\* of another slug, and the expected update ahead of a deficient one
PassingCases == {1, 2, 4}

Locals(t) == <<pc[t], eventConfig[t], event[t], response[t], error[t], sent[t]>>

\* C8: a step of one test case leaves every other test case's state, the client,
\* the files and the configuration alone (the client is written at module load
\* only), and whatever the order and the interleaving, the result of a test
\* case is decided by its own fixtures and its own response.
C8_TestCasesIndependent ==
    [][/\ \A t \in Tests :
             Locals(t)' # Locals(t) =>
                 /\ \A u \in Tests \ {t} : Locals(u)' = Locals(u)
                 /\ erpClient' = erpClient
                 /\ files' = files
                 /\ processEnv' = processEnv
                 /\ testTimeout' = testTimeout
       /\ erpClient' # erpClient => phase = "configured" /\ phase' = "loaded"
       /\ \A t \in Tests :
             /\ Concludes(t) =>
                   (pc'[t] = "passed" <=>
                       \E i \in PassingCases : response[t] = ResponseCases(t)[i])
             /\ (pc[t] = "idle" /\ pc'[t] # "idle") =>
                   (pc'[t] = "failed" <=> ~FixturesIntact(t))]_vars

C8_Witness ==
    /\ pc[5] = "passed"
    /\ pc[3] = "responded"
    /\ pc[1] = "await"
    /\ pc[2] = "idle"

\* C9: every request carries Authorization: Bearer <EPILOT_API_TOKEN>; the
\* header is set when the module is loaded, before any test case has started,
\* and nothing changes it afterwards.
C9_EveryRequestBearsTheToken ==
    /\ [](/\ \A t \in Tests : \A i \in 1..Len(sent[t]) :
                /\ processEnv.t = "str" /\ processEnv.v # ""
                /\ sent[t][i].Authorization = Str("Bearer " \o processEnv.v)
          /\ phase \in {"loaded", "running"} =>
                erpClient.Authorization = Str("Bearer " \o processEnv.v))
    /\ [][erpClient' # erpClient =>
             /\ phase = "configured"
             /\ \A t \in Tests : pc[t] = "idle" /\ sent[t] = <<>>]_vars

C9_Witness ==
    /\ AllFinished
    /\ \A t \in Tests :
          Len(sent[t]) = 1 /\ sent[t][1].Authorization = Str("Bearer secret-token")

\* C10: a call that gets an answer resolves whatever the status, and a test case
\* that holds an error response without an entity_updates array fails, at the
\* lookup or at the assertion, not at the request.
C10_ErrorResponsesFailAfterTheRequest ==
    [][\A t \in Tests :
          /\ (pc[t] = "await" /\ pc'[t] # "await") =>
                \/ pc'[t] = "responded"
                \/ pc'[t] = "failed" /\ error'[t].name = "NoAnswer"
          /\ (pc[t] = "await" /\ pc'[t] = "responded") => Len(sent[t]) = 1
          /\ (/\ pc[t] = "responded" /\ pc'[t] # "responded"
              /\ response[t].status >= 400
              /\ Get(response[t].data, "entity_updates").t # "arr") =>
                /\ pc'[t] = "failed"
                /\ StepOf(error'[t].name) \in {"lookup", "assert"}]_vars

C10_Witness ==
    /\ \E t \in Tests : pc[t] = "failed" /\ error[t].name = "TypeError"
    /\ \E t \in Tests :
          /\ pc[t] = "responded" /\ response[t].status = 500
          /\ Get(response[t].data, "entity_updates").t # "arr"

\* the positions in the held response's entity_updates whose slug is `slug`
PositionsOfSlug(t, slug) ==
    LET updates == Get(response[t].data, "entity_updates")
    IN IF updates.t # "arr" THEN {}
       ELSE {i \in 1..Len(updates.v) : Get(updates.v[i], "entity_slug") = Str(slug)}

UpdateAt(t, i) == Get(response[t].data, "entity_updates").v[i]

\* C11: when the response holds several updates of the sought slug, the result
\* of the test case is decided by the one at the lowest position alone: it
\* passes if that one matches even when a later one does not, and fails if that
\* one does not match even when a later one would.
C11_FirstUpdateOfTheSlugDecides ==
    [][\A t \in Tests :
          LET at == PositionsOfSlug(t, C5_Pairs[t].slug)
          IN (Concludes(t) /\ Cardinality(at) >= 2) =>
                \E first \in at :
                    /\ \A i \in at : first <= i
                    /\ pc'[t] = "passed" <=> CoversExpected(t, UpdateAt(t, first))
                    /\ (/\ CoversExpected(t, UpdateAt(t, first))
                        /\ \E i \in at : ~CoversExpected(t, UpdateAt(t, i)))
                          => pc'[t] = "passed"
                    /\ (/\ ~CoversExpected(t, UpdateAt(t, first))
                        /\ \E i \in at : CoversExpected(t, UpdateAt(t, i)))
                          => /\ pc'[t] = "failed"
                             /\ error'[t] = [name |-> "AssertionError",
                                             actual |-> UpdateAt(t, first)]]_vars

\* one test case has failed on a deficient first update that a matching one
\* followed, another holds a matching first update followed by a deficient one
C11_Witness ==
    /\ \E t \in Tests :
          /\ pc[t] = "failed"
          /\ error[t].name = "AssertionError"
          /\ error[t].actual.t = "obj"
          /\ ~CoversExpected(t, error[t].actual)
          /\ CoversExpected(t, Conforming(t))
    /\ \E t \in Tests :
          LET at == PositionsOfSlug(t, C5_Pairs[t].slug)
          IN /\ pc[t] = "responded"
             /\ at = {1, 2}
             /\ CoversExpected(t, UpdateAt(t, 1))
             /\ ~CoversExpected(t, UpdateAt(t, 2))
             /\ ENABLED Continue(t)

====
